---- MODULE Spec2Model ----
(***************************************************************************)
(* The webhook pipeline of POST /webhook/receive: validation, directory    *)
(* lookup (Google Sheets), document locate (Google Drive), document fetch  *)
(* (downloadFile) and dispatch over the WATI gateway, for two concurrent   *)
(* invocations that share the process environment and the local directory  *)
(* the downloads are written to.  The functions the pipeline is built of   *)
(* (normalization, directory matching, file-name resolution) are also      *)
(* applied on their own, to inputs drawn from bounded sets: FnSpec.        *)
(*                                                                         *)
(* Strings the code inspects character by character (phone numbers, names) *)
(* are sequences of one-character strings.  An optional JSON value is a    *)
(* record [def, s]: def = FALSE is undefined.  Every await of the code is  *)
(* one step: the action named after a reply runs the code from that await  *)
(* to the next one (or to the response).                                   *)
(***************************************************************************)
EXTENDS Integers, Sequences, FiniteSets, TLC

VARIABLES env, inv, fs, probe

vars == <<env, inv, fs, probe>>

\* Requests in flight together.  With three the state space is about 12.7
\* million states (some twenty minutes of TLC); the invariants of C1, C2,
\* C5, C6, C7, C10, C11, C12, C16, C20, C21, C23 and C24 were found to hold
\* there too.
NumInvocations == 2

Invocations == 1..NumInvocations

-----------------------------------------------------------------------------
(* Strings and optional values                                             *)

Digit == {"0", "1", "2", "3", "4", "5", "6", "7", "8", "9"}

Whitespace == {" ", "\t"}

MinPhoneDigits == 10

MaxPhoneDigits == 15

Undefined == [def |-> FALSE, s |-> <<>>]

Str(s) == [def |-> TRUE, s |-> s]

\* JavaScript truthiness of an optional string: defined and not empty.
Truthy(v) == v.def /\ Len(v.s) > 0

\* a || b
OrElse(a, b) == IF Truthy(a) THEN a ELSE b

\* s.replace(/\s/g, '')
StripWhitespace(s) == SelectSeq(s, LAMBDA c : c \notin Whitespace)

RECURSIVE StripFirstNonDigit(_)
\* s.replace(/\D/, ''): without the g flag only the first match goes
StripFirstNonDigit(s) ==
  IF Len(s) = 0 THEN s
  ELSE IF Head(s) \notin Digit THEN Tail(s)
       ELSE <<Head(s)>> \o StripFirstNonDigit(Tail(s))

\* s.replace(/\D/g, '')
StripNonDigits(s) == SelectSeq(s, LAMBDA c : c \in Digit)

\* s.replace(/[<>]/g, '')
StripAngles(s) == SelectSeq(s, LAMBDA c : c \notin {"<", ">"})

RECURSIVE TrimStart(_)
TrimStart(s) ==
  IF Len(s) > 0 /\ Head(s) \in Whitespace THEN TrimStart(Tail(s)) ELSE s

RECURSIVE TrimEnd(_)
TrimEnd(s) ==
  IF Len(s) > 0 /\ s[Len(s)] \in Whitespace
  THEN TrimEnd(SubSeq(s, 1, Len(s) - 1))
  ELSE s

\* s.trim()
Trim(s) == TrimEnd(TrimStart(s))

PhoneRegexTestLoose(s) ==
  LET t == IF Len(s) > 0 /\ Head(s) = "+" THEN Tail(s) ELSE s
  IN  \A k \in 1..Len(t) : t[k] \in Digit

\* /^\+?[0-9]{10,15}$/.test(s)
PhoneRegexTest(s) ==
  LET t == IF Len(s) > 0 /\ Head(s) = "+" THEN Tail(s) ELSE s
  IN  /\ Len(t) >= MinPhoneDigits
      /\ Len(t) <= MaxPhoneDigits
      /\ \A k \in 1..Len(t) : t[k] \in Digit

-----------------------------------------------------------------------------
(* Request bodies: { name, phoneNumber?, phone_number? }                   *)

Jane == <<"J", "a", "n", "e">>

Bob == <<" ", "<", "B", "o", "b", ">">>

Eve == <<"E", "v", "e">>

Dan == <<"D", "a", "n">>

\* "+1 202 555 0178"
PhoneJaneSpaced ==
  <<"+", "1", " ", "2", "0", "2", " ", "5", "5", "5", " ", "0", "1", "7", "8">>

\* "+1 202-555-0178"
PhoneJaneDashed ==
  <<"+", "1", " ", "2", "0", "2", "-", "5", "5", "5", "-", "0", "1", "7", "8">>

\* "919876543210"
PhoneBob == <<"9", "1", "9", "8", "7", "6", "5", "4", "3", "2", "1", "0">>

\* "4155550100"
PhoneEve == <<"4", "1", "5", "5", "5", "5", "0", "1", "0", "0">>

\* "4155550111"
PhoneDan == <<"4", "1", "5", "5", "5", "5", "0", "1", "1", "1">>

\* "1234567890123456"
PhoneTooLong ==
  <<"1", "2", "3", "4", "5", "6", "7", "8", "9", "0", "1", "2", "3", "4", "5", "6">>

Body(name, phoneNumber, phone_number) ==
  [name |-> name, phoneNumber |-> phoneNumber, phone_number |-> phone_number]

Bodies ==
  { Body(Str(Jane), Str(PhoneJaneSpaced), Undefined),
    Body(Str(Jane), Str(PhoneJaneDashed), Undefined),
    Body(Str(Bob), Undefined, Str(PhoneBob)),
    Body(Str(Eve), Str(PhoneEve), Undefined),
    Body(Str(Dan), Str(<<>>), Str(PhoneDan)),
    Body(Str(Jane), Str(PhoneTooLong), Undefined),
    Body(Str(<<>>), Str(<<"1", "2", "3">>), Undefined),
    Body(Str(Jane), Str(<<"1", "2", "3", "4", "5">>), Undefined),
    Body(Undefined, Str(PhoneEve), Undefined),
    Body(Str(Jane), Undefined, Undefined),
    Body(Str(Jane), Str(<<" ", " ">>), Undefined) }

-----------------------------------------------------------------------------
(* The directory: rows of the first sheet, in sheet order                  *)

Row(phone, enrollment) == [PhoneNumber |-> phone, enrollmentNumber |-> enrollment]

\* "+1 (202) 555-0178"
SheetPhoneJane ==
  <<"+", "1", " ", "(", "2", "0", "2", ")", " ", "5", "5", "5", "-",
    "0", "1", "7", "8">>

Sheet ==
  << Row(Undefined, Str(<<"E", "N", "3">>)),
     Row(Str(<<>>), Str(<<"E", "N", "4">>)),
     Row(Str(<<"n", "/", "a">>), Str(<<"E", "N", "5">>)),
     Row(Str(SheetPhoneJane), Str(<<"E", "N", "1">>)),
     Row(Str(PhoneBob), Str(<<>>)),
     Row(Str(PhoneDan), Undefined),
     Row(Str(StripNonDigits(PhoneJaneSpaced)), Str(<<"E", "N", "2">>)) >>

DirectoryReplies ==
  { [kind |-> "error", text |-> "getaddrinfo ENOTFOUND sheets.googleapis.com"],
    [kind |-> "nosheet", text |-> ""],
    [kind |-> "rows", text |-> ""] }

-----------------------------------------------------------------------------
(* The file store: files.list and files.get                                *)

\* A URL: its part before the query and its query parameters in order.
Url(base, params) == [base |-> base, params |-> params]

NoUrl == Url("", <<>>)

DriveUc == "https://drive.google.com/uc"

\* https://drive.google.com/uc?id=<id>&export=download
WebContentLink(id) == Url(DriveUc, <<<<"id", id>>, <<"export", "download">>>>)

ListReplies ==
  { [kind |-> "error", files |-> <<>>],
    [kind |-> "files", files |-> <<>>],
    [kind |-> "files", files |-> <<[id |-> ""], [id |-> "F2"]>>],
    [kind |-> "files", files |-> <<[id |-> "F1"], [id |-> "F2"]>>],
    [kind |-> "files", files |-> <<[id |-> "F2"], [id |-> "F1"]>>] }

NoListReply == [kind |-> "none", files |-> <<>>]

GetReplies ==
  { [kind |-> "error", hasLink |-> FALSE],
    [kind |-> "file", hasLink |-> FALSE],
    [kind |-> "file", hasLink |-> TRUE] }

NoGetReply == [kind |-> "none", hasLink |-> FALSE]

-----------------------------------------------------------------------------
(* The gateway: what a post can come back with                             *)

\* A response body: absent (undefined), or an object whose fields hold
\* "true"/"false" (the booleans), "'true'" (the string) or "absent".
GwBody(kind, success, result, message) ==
  [kind |-> kind, success |-> success, result |-> result, message |-> message]

NoData == GwBody("omitted", "absent", "absent", "")

GatewayBodies ==
  { GwBody("undefined", "absent", "absent", ""),
    GwBody("object", "true", "absent", ""),
    GwBody("object", "absent", "true", ""),
    GwBody("object", "false", "absent", "Invalid WhatsApp number"),
    GwBody("object", "'true'", "false", "") }

GatewayErrors ==
  { "timeout of 10000ms exceeded", "Request failed with status code 401" }

GatewayReplies ==
  [kind : {"body"}, body : GatewayBodies, text : {""}]
    \cup [kind : {"error"}, body : {NoData}, text : GatewayErrors]

-----------------------------------------------------------------------------
(* The document's host: what a GET can come back with                      *)

\* The content-disposition header: absent, or present with the file name
\* /filename="?([^"]+)"?/ captures ("" when it captures none).
NoDisposition == [present |-> FALSE, filename |-> ""]

Disposition(filename) == [present |-> TRUE, filename |-> filename]

\* A response: whether its content-type includes text/html, the token
\* /confirm=([^&]+)/ captures in its body ("" when it captures none) and its
\* content-disposition header; kind "error" is a rejected request.
HttpResponse(kind, html, token, cd) ==
  [kind |-> kind, html |-> html, token |-> token, cd |-> cd]

NoHttpResponse == HttpResponse("none", FALSE, "", NoDisposition)

HttpReplies ==
  { HttpResponse("error", FALSE, "", NoDisposition),
    HttpResponse("ok", TRUE, "XYZ123", NoDisposition),
    HttpResponse("ok", TRUE, "", NoDisposition),
    HttpResponse("ok", FALSE, "", Disposition("report.pdf")),
    HttpResponse("ok", FALSE, "", NoDisposition) }

-----------------------------------------------------------------------------
(* One invocation of the handler                                           *)

NoError == [present |-> FALSE, text |-> ""]

ErrorText(t) == [present |-> TRUE, text |-> t]

\* res.status(status).json({ success, message, data?, error? })
Response(status, success, message, data, error) ==
  [status |-> status, success |-> success, message |-> message,
   data |-> data, error |-> error]

NoResponse == Response(0, FALSE, "", NoData, NoError)

ZeroCalls ==
  [directory |-> 0, list |-> 0, get |-> 0, http |-> 0,
   sendText |-> 0, textPost |-> 0, sendPdf |-> 0, docPost |-> 0]

NoBody == Body(Undefined, Undefined, Undefined)

NewInvocation ==
  [pc |-> "idle", body |-> NoBody,
   sanitizedName |-> <<>>, sanitizedPhone |-> <<>>,
   enrollmentNumber |-> <<>>, fileId |-> "", pdfUrl |-> NoUrl,
   lookupPhone |-> <<>>, matchedRow |-> 0, stages |-> <<>>,
   listed |-> NoListReply, got |-> NoGetReply, directDownloadLink |-> NoUrl,
   first |-> NoHttpResponse,
   confirmedUrl |-> NoUrl, fileName |-> "", html |-> FALSE,
   downloadedFilePath |-> "",
   errorMessage |-> "", notFound |-> "", textTo |-> <<>>, docTo |-> <<>>,
   reply |-> [kind |-> "none", body |-> NoData, text |-> ""],
   res |-> NoResponse, thrown |-> "", failedAt |-> "", calls |-> ZeroCalls]

Called(r, what) == [r EXCEPT !.calls[what] = @ + 1]

\* An await of the handler returned normally: the stage is complete.
Succeeded(r, stage) == [r EXCEPT !.stages = Append(@, stage)]

\* return res.status(...).json(...)
Respond(r, status, success, message, data, error) ==
  [r EXCEPT !.pc = "done",
            !.res = Response(status, success, message, data, error)]

\* The handler's catch: the error's message goes into the response.
Catch(r, stage, text) ==
  [Respond(r, 500, FALSE, "Error processing webhook", NoData, ErrorText(text))
     EXCEPT !.thrown = text, !.failedAt = stage]

-----------------------------------------------------------------------------
(* Validation                                                              *)

UserPhoneNumber(body) == OrElse(body.phoneNumber, body.phone_number)

\* userPhoneNumber.replace(/\s/g, '')
SanitizePhone(s) == StripWhitespace(s)

\* name.trim().replace(/[<>]/g, '')
SanitizeName(s) == StripAngles(Trim(s))

\* The message of the 400 response, "" when the body passes validation.
ValidationFailure(body) ==
  IF ~Truthy(body.name) \/ ~Truthy(UserPhoneNumber(body))
  THEN "Name and phone number are required"
  ELSE IF ~PhoneRegexTest(SanitizePhone(UserPhoneNumber(body).s))
       THEN "Invalid phone number format"
       ELSE ""

-----------------------------------------------------------------------------
(* sendErrorMessageViaWati, up to its post                                 *)

SendErrorMessageViaWati(r, phoneNumber, message) ==
  LET c == Called(r, "sendText")
  IN  IF ~env.wati
      THEN Catch(c, "sendText", "WATI API credentials are not properly configured")
      ELSE [Called(c, "textPost") EXCEPT !.pc = "post_text",
                                         !.errorMessage = message,
                                         !.textTo = phoneNumber]

\* response.data && (response.data.success === true || response.data.result === true)
AssertsSuccessTruthy(body) ==
  body.kind = "object" /\ (body.success \in {"true", "'true'"} \/ body.result \in {"true", "'true'"})

AssertsSuccess(body) ==
  body.kind = "object" /\ (body.success = "true" \/ body.result = "true")

\* The message of the error sendErrorMessageViaWati throws for a body that
\* does not assert success: reading .message of an undefined body is a
\* TypeError; otherwise response.data.message || 'Unknown error'.
TextFailureMessage(body) ==
  IF body.kind = "undefined"
  THEN "Cannot read properties of undefined (reading 'message')"
  ELSE IF body.message # "" THEN body.message ELSE "Unknown error"

\* A text send whose failure is swallowed: 404 without data.
TextRepliedSwallowing(r, reply) ==
  IF reply.kind = "body" /\ AssertsSuccess(reply.body)
  THEN Respond(r, 404, FALSE, r.notFound, reply.body, NoError)
  ELSE Respond(r, 404, FALSE, r.notFound, NoData, NoError)

TextReplied(r, reply) ==
  IF reply.kind = "error"
  THEN Catch(r, "sendText", reply.text)
  ELSE IF AssertsSuccess(reply.body)
       THEN Respond(r, 404, FALSE, r.notFound, reply.body, NoError)
       ELSE Catch(r, "sendText", TextFailureMessage(reply.body))

-----------------------------------------------------------------------------
(* Directory lookup: findPhoneNumberInSheet and getEnrollmentNumber        *)

\* A comparison that accepts a cell whose digits begin the phone's digits.
RowMatchesLenient(row, normalizedPhoneNumber) ==
  LET cell == StripNonDigits(OrElse(row.PhoneNumber, Str(<<>>)).s)
  IN  /\ Len(cell) <= Len(normalizedPhoneNumber)
      /\ cell = SubSeq(normalizedPhoneNumber, 1, Len(cell))

\* row => (row.get('PhoneNumber') || '').toString().replace(/\D/g, '') === normalized
RowMatches(row, normalizedPhoneNumber) ==
  StripNonDigits(OrElse(row.PhoneNumber, Str(<<>>)).s) = normalizedPhoneNumber

\* The index of the last matching row, 0 when none matches.
FindPhoneNumberInSheetLast(rows, phoneNumber) ==
  LET normalizedPhoneNumber == StripNonDigits(phoneNumber)
      hits == {k \in 1..Len(rows) : RowMatches(rows[k], normalizedPhoneNumber)}
  IN  IF hits = {} THEN 0 ELSE CHOOSE k \in hits : \A m \in hits : k >= m

\* rows.find(...): the index of the first matching row, 0 when none matches.
FindPhoneNumberInSheet(rows, phoneNumber) ==
  LET normalizedPhoneNumber == StripNonDigits(phoneNumber)
      hits == {k \in 1..Len(rows) : RowMatches(rows[k], normalizedPhoneNumber)}
  IN  IF hits = {} THEN 0 ELSE CHOOSE k \in hits : \A m \in hits : k <= m

\* null (Undefined) when the column is empty or absent.
GetEnrollmentNumber(row) ==
  IF ~Truthy(row.enrollmentNumber) THEN Undefined ELSE row.enrollmentNumber

\* findPhoneNumberInSheet up to its first request: initGoogleSheets throws
\* before any request when the credentials are not configured.
\* A lookup that hands the directory the digits of the phone only.
CallDirectoryNormalizing(r) ==
  IF ~env.sheets
  THEN Catch(r, "directory", "Google Sheets credentials not properly configured")
  ELSE [Called(r, "directory") EXCEPT !.pc = "lookup",
                                      !.lookupPhone = StripNonDigits(r.sanitizedPhone)]

CallDirectory(r) ==
  IF ~env.sheets
  THEN Catch(r, "directory", "Google Sheets credentials not properly configured")
  ELSE [Called(r, "directory") EXCEPT !.pc = "lookup",
                                      !.lookupPhone = r.sanitizedPhone]

\* findPdfByEnrollmentNumber up to files.list.
CallLocator(r, enrollmentNumber) ==
  IF ~env.folder
  THEN Catch(r, "locate", "Google Drive folder ID not configured")
  ELSE [Called(r, "list") EXCEPT !.pc = "list",
                                 !.enrollmentNumber = enrollmentNumber]

PhoneNotFoundText ==
  "Invalid phone number. Please ensure you've registered with the correct number."

DocumentNotFoundText ==
  "We couldn't find your document. Please contact support for assistance."

\* A handler that texts the requester in the missing-enrollment branch too.
DirectoryCheckedTexting(r, rows) ==
  LET k == FindPhoneNumberInSheet(rows, r.sanitizedPhone)
  IN  IF k = 0 \/ ~Truthy(GetEnrollmentNumber(rows[k]))
      THEN SendErrorMessageViaWati(
             [r EXCEPT !.notFound = "Phone number not found in the database"],
             r.sanitizedPhone, PhoneNotFoundText)
      ELSE CallLocator(Succeeded(Succeeded(r, "lookup"), "extract"),
                       GetEnrollmentNumber(rows[k]).s)

\* A handler that reads the enrollment number of the last matching row.
DirectoryCheckedLastRow(r, rows) ==
  LET k == FindPhoneNumberInSheetLast(rows, r.sanitizedPhone)
      m == [Succeeded(r, "lookup") EXCEPT !.matchedRow = k]
  IN  IF k = 0
      THEN SendErrorMessageViaWati(
             [r EXCEPT !.notFound = "Phone number not found in the database"],
             r.sanitizedPhone, PhoneNotFoundText)
      ELSE IF ~Truthy(GetEnrollmentNumber(rows[k]))
           THEN Respond(m, 404, FALSE,
                        "Enrollment number not found for the matched phone number",
                        NoData, NoError)
           ELSE CallLocator(Succeeded(m, "extract"),
                            GetEnrollmentNumber(rows[k]).s)

\* The handler from the directory's rows to its next await or response.
DirectoryChecked(r, rows) ==
  LET k == FindPhoneNumberInSheet(rows, r.sanitizedPhone)
      m == [Succeeded(r, "lookup") EXCEPT !.matchedRow = k]
  IN  IF k = 0
      THEN SendErrorMessageViaWati(
             [r EXCEPT !.notFound = "Phone number not found in the database"],
             r.sanitizedPhone, PhoneNotFoundText)
      ELSE IF ~Truthy(GetEnrollmentNumber(rows[k]))
           THEN Respond(m, 404, FALSE,
                        "Enrollment number not found for the matched phone number",
                        NoData, NoError)
           ELSE CallLocator(Succeeded(m, "extract"),
                            GetEnrollmentNumber(rows[k]).s)

DirectoryReplied(r, reply) ==
  CASE reply.kind = "error" -> Catch(r, "directory", reply.text)
    [] reply.kind = "nosheet" ->
         Catch(r, "directory", "No sheet found in the Google Spreadsheet")
    [] OTHER -> DirectoryChecked(r, Sheet)

\* The handler from the request to its first await or its response.
Handle(r) ==
  IF ValidationFailure(r.body) # ""
  THEN Respond(r, 400, FALSE, ValidationFailure(r.body), NoData, NoError)
  ELSE CallDirectory(
         [r EXCEPT !.sanitizedName = SanitizeName(r.body.name.s),
                   !.sanitizedPhone = SanitizePhone(UserPhoneNumber(r.body).s)])

-----------------------------------------------------------------------------
(* Document locate: findPdfByEnrollmentNumber                              *)

RECURSIVE DropParam(_, _)
\* params without the first pair equal to kv that is not the first parameter
DropParam(params, kv) ==
  IF Len(params) < 2 THEN params
  ELSE IF params[2] = kv
       THEN <<params[1]>> \o SubSeq(params, 3, Len(params))
       ELSE <<params[1]>> \o DropParam(Tail(params), kv)

\* webContentLink.replace('&export=download', '')
DirectDownloadLink(link) ==
  Url(link.base, DropParam(link.params, <<"export", "download">>))

\* A branch that answers 404 without texting the requester.
DocumentNotFoundSilent(r) ==
  Respond([r EXCEPT !.notFound = "PDF not found for the enrollment number"],
          404, FALSE, "PDF not found for the enrollment number", NoData, NoError)

\* The handler's branch for a null pdfUrl: lines 157-169.
DocumentNotFound(r) ==
  SendErrorMessageViaWati(
    [r EXCEPT !.notFound = "PDF not found for the enrollment number"],
    r.sanitizedPhone, DocumentNotFoundText)

\* A locator that passes over a file without an id to the next result.
ListRepliedSkipping(r, reply) ==
  IF reply.kind = "error"
  THEN Catch(r, "locate", "Request had invalid authentication credentials")
  ELSE IF Len(reply.files) = 0
       THEN DocumentNotFound(r)
       ELSE IF reply.files[1].id = ""
            THEN [Called(r, "get") EXCEPT !.pc = "get",
                                          !.fileId = reply.files[2].id]
            ELSE [Called(r, "get") EXCEPT !.pc = "get",
                                          !.fileId = reply.files[1].id]

\* findPdfByEnrollmentNumber from the reply of files.list: lines 44-66.
ListReplied(r, reply) ==
  IF reply.kind = "error"
  THEN Catch(r, "locate", "Request had invalid authentication credentials")
  ELSE IF Len(reply.files) = 0
       THEN DocumentNotFound(r)
       ELSE IF reply.files[1].id = ""
            THEN DocumentNotFound(r)
            ELSE [Called(r, "get") EXCEPT !.pc = "get",
                                          !.fileId = reply.files[1].id]

-----------------------------------------------------------------------------
(* sendPdfViaWati and downloadFile                                         *)

HttpBases == {DriveUc}

DriveBases == {DriveUc}

RECURSIVE ParamValue(_, _)
\* the value of the first parameter named key with a non-empty value, else ""
ParamValue(params, key) ==
  IF Len(params) = 0 THEN ""
  ELSE IF params[1][1] = key /\ params[1][2] # "" THEN params[1][2]
       ELSE ParamValue(Tail(params), key)

\* `https://drive.google.com/uc?export=download&id=${id}`
UcDownloadUrl(id) == Url(DriveUc, <<<<"export", "download">>, <<"id", id>>>>)

\* Lines 113-129: a Drive link is rebuilt from its file id, another http
\* link is kept, anything else is taken to be a file id.
NormalizePdfUrl(u) ==
  IF u.base \in HttpBases
  THEN IF u.base \in DriveBases /\ ParamValue(u.params, "id") # ""
       THEN UcDownloadUrl(ParamValue(u.params, "id"))
       ELSE u
  ELSE UcDownloadUrl(u.base)

\* `${url}&confirm=${confirmToken}`
ConfirmedUrl(u, token) == Url(u.base, Append(u.params, <<"confirm", token>>))

\* A resolution that prefers the URL's id to the header's file name.
ResolveFileNameIdFirst(contentDisposition, u) ==
  IF ParamValue(u.params, "id") # ""
  THEN ParamValue(u.params, "id") \o ".pdf"
  ELSE IF contentDisposition.present /\ contentDisposition.filename # ""
       THEN contentDisposition.filename
       ELSE "downloaded.pdf"

\* The file name downloadFile writes to.
ResolveFileName(contentDisposition, u) ==
  IF contentDisposition.present /\ contentDisposition.filename # ""
  THEN contentDisposition.filename
  ELSE IF ParamValue(u.params, "id") # ""
       THEN ParamValue(u.params, "id") \o ".pdf"
       ELSE "downloaded.pdf"

\* sendPdfViaWati up to downloadFile's first GET.
SendPdfViaWati(r, pdfUrl) ==
  LET c == Called(r, "sendPdf")
  IN  IF ~env.wati
      THEN Catch(c, "dispatch", "WATI API credentials are not properly configured")
      ELSE [Called(c, "http") EXCEPT !.pc = "get1",
                                     !.pdfUrl = NormalizePdfUrl(pdfUrl)]

\* A handler that goes on to the fetch although the file has no link.
GetRepliedEager(r, reply) ==
  IF reply.kind = "error"
  THEN Catch(r, "locate", "File not found")
  ELSE IF ~reply.hasLink
       THEN SendPdfViaWati(r, DirectDownloadLink(WebContentLink(r.fileId)))
       ELSE SendPdfViaWati(
              [Succeeded(r, "locate") EXCEPT
                 !.directDownloadLink = DirectDownloadLink(WebContentLink(r.fileId))],
              DirectDownloadLink(WebContentLink(r.fileId)))

\* findPdfByEnrollmentNumber from the reply of files.get, and the handler
\* from its return to downloadFile's first GET.
GetReplied(r, reply) ==
  IF reply.kind = "error"
  THEN Catch(r, "locate", "File not found")
  ELSE IF ~reply.hasLink
       THEN DocumentNotFound(r)
       ELSE SendPdfViaWati(
              [Succeeded(r, "locate") EXCEPT
                 !.directDownloadLink = DirectDownloadLink(WebContentLink(r.fileId))],
              DirectDownloadLink(WebContentLink(r.fileId)))

\* downloadFile from a response it streams to disk: lines 53-72.
StreamToDisk(r, response) ==
  [r EXCEPT !.pc = "dl_open",
            !.html = response.html,
            !.fileName = ResolveFileName(response.cd, r.pdfUrl)]

\* A fetcher that saves a confirmation page it finds no token in.
FirstGetRepliedStreaming(r, response) ==
  IF response.kind = "error"
  THEN Catch(r, "fetch", "Request failed with status code 404")
  ELSE IF response.html /\ response.token # ""
       THEN [Called(r, "http") EXCEPT
               !.pc = "get2",
               !.confirmedUrl = ConfirmedUrl(r.pdfUrl, response.token)]
       ELSE StreamToDisk(r, response)

\* downloadFile from the reply to its first GET: lines 30-51.
FirstGetReplied(r, response) ==
  IF response.kind = "error"
  THEN Catch(r, "fetch", "Request failed with status code 404")
  ELSE IF response.html
       THEN IF response.token # ""
            THEN [Called(r, "http") EXCEPT
                    !.pc = "get2",
                    !.confirmedUrl = ConfirmedUrl(r.pdfUrl, response.token)]
            ELSE Catch(r, "fetch",
                       "Failed to extract confirmation token from HTML response.")
       ELSE StreamToDisk(r, response)

\* A fetcher that asks again whenever a confirmation page comes back.
SecondGetRepliedRetrying(r, response) ==
  IF response.kind = "error"
  THEN Catch(r, "fetch", "Request failed with status code 404")
  ELSE IF response.html /\ response.token # ""
       THEN [Called(r, "http") EXCEPT
               !.pc = "get2",
               !.confirmedUrl = ConfirmedUrl(r.confirmedUrl, response.token)]
       ELSE StreamToDisk(r, response)

\* downloadFile from the reply to its second GET: lines 47-72.
SecondGetReplied(r, response) ==
  IF response.kind = "error"
  THEN Catch(r, "fetch", "Request failed with status code 404")
  ELSE StreamToDisk(r, response)

-----------------------------------------------------------------------------
(* Local storage: the directory downloadFile writes to                     *)

Files == {"report.pdf", "F1.pdf", "F2.pdf", "downloaded.pdf"}

NoFile == [exists |-> FALSE, by |-> 0, html |-> FALSE, complete |-> FALSE]

\* fs.createWriteStream(filePath), opened: the file is created or truncated.
Opened(files, path, i, html) ==
  [files EXCEPT ![path] =
     [exists |-> TRUE, by |-> i, html |-> html, complete |-> FALSE]]

\* The writer finished: the bytes are the file's, if it is still this
\* invocation's.
Finished(files, path, i) ==
  IF files[path].exists /\ files[path].by = i
  THEN [files EXCEPT ![path].complete = TRUE]
  ELSE files

\* sendPdfViaWati's finally.
CleanedUp(files, downloadedFilePath) ==
  IF downloadedFilePath # "" /\ files[downloadedFilePath].exists
  THEN [files EXCEPT ![downloadedFilePath] = NoFile]
  ELSE files

\* A dispatch that tells the requester about its own failure.
DocRepliedTexting(r, reply) ==
  IF reply.kind = "body" /\ AssertsSuccess(reply.body)
  THEN Respond(Succeeded(r, "dispatch"), 200, TRUE, "PDF sent successfully",
               reply.body, NoError)
  ELSE SendErrorMessageViaWati(r, r.sanitizedPhone, DocumentNotFoundText)

\* sendPdfViaWati from the gateway's reply to its return or throw.
DocReplied(r, reply) ==
  IF reply.kind = "error"
  THEN Catch(r, "dispatch", reply.text)
  ELSE IF AssertsSuccess(reply.body)
       THEN Respond(Succeeded(r, "dispatch"), 200, TRUE, "PDF sent successfully",
                    reply.body, NoError)
       ELSE Catch(r, "dispatch", "Failed to send PDF via WATI API")

-----------------------------------------------------------------------------
(* The functions applied on their own: their inputs                        *)

\* The longest phone string tried.
MaxPhoneLen == 3

\* The most rows a sheet tried has.
MaxRows == 3

SeqsUpTo(S, n) == UNION {[1..k -> S] : k \in 0..n}

PhoneChars == {"1", "2", "-"}

PhoneStrings == SeqsUpTo(PhoneChars, MaxPhoneLen)

\* The phone strings that show the digits of p: its formatting variants.
Variants(p) ==
  {v \in PhoneStrings :
     SelectSeq(v, LAMBDA c : c \in Digit) = SelectSeq(p, LAMBDA c : c \in Digit)}

\* PhoneNumber cells: absent, empty, "12", "(1)-2", "21".
SheetCells ==
  { Undefined, Str(<<>>), Str(<<"1", "2">>),
    Str(<<"(", "1", ")", "-", "2">>), Str(<<"2", "1">>) }

Sheets == SeqsUpTo({Row(c, Str(<<"E", "N", "1">>)) : c \in SheetCells}, MaxRows)

Dispositions ==
  { NoDisposition, Disposition(""), Disposition("report.pdf"),
    Disposition("F2.pdf") }

\* Links with and without an id parameter, one of them not a Drive link.
RequestUrls ==
  { UcDownloadUrl("F1"),
    WebContentLink("F2"),
    Url(DriveUc, <<<<"export", "download">>>>),
    Url(DriveUc, <<<<"id", "">>, <<"export", "download">>>>),
    Url(DriveUc, <<<<"id", "">>, <<"id", "F1">>>>),
    Url("https://example.org/reports/r.pdf", <<>>),
    ConfirmedUrl(UcDownloadUrl("F1"), "XYZ123") }

\* One application of a function: its inputs, and its results once applied.
Probe(fn, phone, variant, rows, header, url) ==
  [fn |-> fn, phone |-> phone, variant |-> variant, rows |-> rows,
   header |-> header, url |-> url, applied |-> FALSE,
   normalized |-> <<>>, matched |-> 0, matchedVariant |-> 0, fileName |-> ""]

NoProbe == Probe("none", <<>>, <<>>, <<>>, NoDisposition, NoUrl)

-----------------------------------------------------------------------------
(* The state machine                                                       *)

\* process.env: which groups of settings are configured.
Envs ==
  { [sheets |-> TRUE, folder |-> TRUE, wati |-> TRUE],
    [sheets |-> FALSE, folder |-> TRUE, wati |-> TRUE],
    [sheets |-> TRUE, folder |-> FALSE, wati |-> TRUE],
    [sheets |-> TRUE, folder |-> TRUE, wati |-> FALSE] }

Init ==
  /\ env \in Envs
  /\ inv = [i \in Invocations |-> NewInvocation]
  /\ fs = [f \in Files |-> NoFile]
  /\ probe = NoProbe

Becomes(i, r) == inv' = [inv EXCEPT ![i] = r]

\* POST /webhook/receive arrives.
Receive(i) ==
  /\ inv[i].pc = "idle"
  /\ \E body \in Bodies : Becomes(i, Handle([inv[i] EXCEPT !.body = body]))
  /\ UNCHANGED <<env, fs, probe>>

DirectoryReply(i) ==
  /\ inv[i].pc = "lookup"
  /\ \E reply \in DirectoryReplies : Becomes(i, DirectoryReplied(inv[i], reply))
  /\ UNCHANGED <<env, fs, probe>>

TextReply(i) ==
  /\ inv[i].pc = "post_text"
  /\ \E reply \in GatewayReplies : Becomes(i, TextReplied([inv[i] EXCEPT !.reply = reply], reply))
  /\ UNCHANGED <<env, fs, probe>>

ListReply(i) ==
  /\ inv[i].pc = "list"
  /\ \E reply \in ListReplies :
       Becomes(i, ListReplied([inv[i] EXCEPT !.listed = reply], reply))
  /\ UNCHANGED <<env, fs, probe>>

GetReply(i) ==
  /\ inv[i].pc = "get"
  /\ \E reply \in GetReplies :
       Becomes(i, GetReplied([inv[i] EXCEPT !.got = reply], reply))
  /\ UNCHANGED <<env, fs, probe>>

FirstGetReply(i) ==
  /\ inv[i].pc = "get1"
  /\ \E response \in HttpReplies :
       Becomes(i, FirstGetReplied([inv[i] EXCEPT !.first = response], response))
  /\ UNCHANGED <<env, fs, probe>>

SecondGetReply(i) ==
  /\ inv[i].pc = "get2"
  /\ \E response \in HttpReplies : Becomes(i, SecondGetReplied(inv[i], response))
  /\ UNCHANGED <<env, fs, probe>>

\* The write stream opens its file, or fails to (the writer's 'error').
WriterOpen(i) ==
  /\ inv[i].pc = "dl_open"
  /\ \E ok \in BOOLEAN :
       IF ok
       THEN /\ Becomes(i, [inv[i] EXCEPT !.pc = "dl_stream"])
            /\ fs' = Opened(fs, inv[i].fileName, i, inv[i].html)
       ELSE /\ Becomes(i, Catch(inv[i], "fetch", "EACCES: permission denied, open"))
            /\ fs' = CleanedUp(fs, inv[i].downloadedFilePath)
  /\ UNCHANGED <<env, probe>>

\* The pipe ends: the writer's 'finish', the writer's 'error' after part of
\* the body was written, or the response stream failing, which neither
\* event follows.
StreamEnd(i) ==
  /\ inv[i].pc = "dl_stream"
  /\ \E how \in {"finish", "error", "aborted"} :
       CASE how = "finish" ->
              /\ Becomes(i, [Succeeded(inv[i], "fetch") EXCEPT
                                !.pc = "read_open",
                                !.downloadedFilePath = inv[i].fileName])
              /\ fs' = Finished(fs, inv[i].fileName, i)
         [] how = "error" ->
              /\ Becomes(i, Catch(inv[i], "fetch",
                                  "ENOSPC: no space left on device, write"))
              /\ fs' = CleanedUp(fs, inv[i].downloadedFilePath)
         [] OTHER ->
              /\ Becomes(i, [inv[i] EXCEPT !.pc = "hung", !.failedAt = "fetch"])
              /\ fs' = fs
  /\ UNCHANGED <<env, probe>>

\* The form's read stream opens the downloaded file and the post goes out,
\* or the open fails and sendPdfViaWati throws.
OpenRead(i) ==
  /\ inv[i].pc = "read_open"
  /\ IF fs[inv[i].downloadedFilePath].exists
     THEN /\ Becomes(i, [Called(inv[i], "docPost") EXCEPT
                           !.pc = "post_doc", !.docTo = inv[i].sanitizedPhone])
          /\ fs' = fs
     ELSE /\ Becomes(i, Catch(inv[i], "dispatch",
                              "ENOENT: no such file or directory, open"))
          /\ fs' = CleanedUp(fs, inv[i].downloadedFilePath)
  /\ UNCHANGED <<env, probe>>

DocReply(i) ==
  /\ inv[i].pc = "post_doc"
  /\ \E reply \in GatewayReplies : Becomes(i, DocReplied([inv[i] EXCEPT !.reply = reply], reply))
  /\ fs' = CleanedUp(fs, inv[i].downloadedFilePath)
  /\ UNCHANGED <<env, probe>>

Next ==
  \E i \in Invocations :
    \/ Receive(i)
    \/ DirectoryReply(i)
    \/ TextReply(i)
    \/ ListReply(i)
    \/ GetReply(i)
    \/ FirstGetReply(i)
    \/ SecondGetReply(i)
    \/ WriterOpen(i)
    \/ StreamEnd(i)
    \/ OpenRead(i)
    \/ DocReply(i)

Spec == Init /\ [][Next]_vars

-----------------------------------------------------------------------------
(* The functions applied on their own                                      *)

AllConfigured == [sheets |-> TRUE, folder |-> TRUE, wati |-> TRUE]

FnInit ==
  /\ env = AllConfigured
  /\ inv = [i \in Invocations |-> NewInvocation]
  /\ fs = [f \in Files |-> NoFile]
  /\ \/ \E p \in PhoneStrings :
          probe = Probe("normalize", p, <<>>, <<>>, NoDisposition, NoUrl)
     \/ \E p \in PhoneStrings, rows \in Sheets :
          \E v \in Variants(p) :
            probe = Probe("find", p, v, rows, NoDisposition, NoUrl)
     \/ \E cd \in Dispositions, u \in RequestUrls :
          probe = Probe("name", <<>>, <<>>, <<>>, cd, u)

\* phoneNumber.replace(/\D/g, '')
Normalize ==
  /\ probe.fn = "normalize" /\ ~probe.applied
  /\ probe' = [probe EXCEPT !.applied = TRUE,
                            !.normalized = StripNonDigits(probe.phone)]
  /\ UNCHANGED <<env, inv, fs>>

\* rows.find(...) for a phone and for a variant of it, on the same rows
FindRow ==
  /\ probe.fn = "find" /\ ~probe.applied
  /\ probe' = [probe EXCEPT
                 !.applied = TRUE,
                 !.matched = FindPhoneNumberInSheet(probe.rows, probe.phone),
                 !.matchedVariant = FindPhoneNumberInSheet(probe.rows, probe.variant)]
  /\ UNCHANGED <<env, inv, fs>>

\* downloadFile's choice of file name for a response and a request URL
ResolveName ==
  /\ probe.fn = "name" /\ ~probe.applied
  /\ probe' = [probe EXCEPT
                 !.applied = TRUE,
                 !.fileName = ResolveFileName(probe.header, probe.url)]
  /\ UNCHANGED <<env, inv, fs>>

FnNext == Normalize \/ FindRow \/ ResolveName

FnSpec == FnInit /\ [][FnNext]_vars

-----------------------------------------------------------------------------
(* Properties                                                              *)

Done(i) == inv[i].pc = "done"

Status(i) == inv[i].res.status

\* Requests this invocation has made of the directory, the file store, the
\* document's host and the gateway.
ExternalCalls(i) ==
  inv[i].calls.directory + inv[i].calls.list + inv[i].calls.get
    + inv[i].calls.http + inv[i].calls.textPost + inv[i].calls.docPost

\* ^\+?[0-9]{10,15}$ as the interface states it.
MatchesPhonePattern(s) ==
  \E plus \in {0, 1} :
    /\ plus = 1 => (Len(s) > 0 /\ s[1] = "+")
    /\ Len(s) - plus \in 10..15
    /\ \A k \in (plus + 1)..Len(s) : s[k] \in Digit

NoWhitespace(s) == SelectSeq(s, LAMBDA c : c # " " /\ c # "\t")

GivenPhone(body) ==
  IF body.phoneNumber.def /\ body.phoneNumber.s # <<>>
  THEN body.phoneNumber
  ELSE body.phone_number

\* The bodies C1 is about: no name, no phone, or a phone that without its
\* whitespace does not match the pattern.
InvalidBody(body) ==
  \/ ~body.name.def \/ body.name.s = <<>>
  \/ ~GivenPhone(body).def
  \/ ~MatchesPhonePattern(NoWhitespace(GivenPhone(body).s))

\* C1: an invocation whose name is empty or missing, whose phone is missing
\* or whose phone, whitespace removed, does not match ^\+?[0-9]{10,15}$ ends
\* with status 400 and success=false, and at no point has it called the
\* directory, the file store, the document's host or the gateway.
C1_InvalidInputIs400WithoutCalls ==
  \A i \in Invocations :
    (inv[i].pc # "idle" /\ InvalidBody(inv[i].body)) =>
      /\ Done(i)
      /\ Status(i) = 400
      /\ inv[i].res.success = FALSE
      /\ ExternalCalls(i) = 0
      /\ inv[i].calls.sendText = 0
      /\ inv[i].calls.sendPdf = 0

\* A too-short phone and a body without a name have both been answered.
C1_Witness ==
  \E i, j \in Invocations :
    /\ Done(i) /\ Status(i) = 400
    /\ inv[i].body.phoneNumber = Str(<<"1", "2", "3", "4", "5">>)
    /\ inv[i].res.message = "Invalid phone number format"
    /\ Done(j) /\ Status(j) = 400 /\ ~inv[j].body.name.def
    /\ inv[j].res.message = "Name and phone number are required"

\* C2: in no state of an invocation have both the document post of
\* sendPdfViaWati and the text post of sendErrorMessageViaWati been issued.
C2_NeverDocumentAndText ==
  \A i \in Invocations :
    ~(inv[i].calls.docPost > 0 /\ inv[i].calls.textPost > 0)

\* One invocation has posted its document, the other its error text.
C2_Witness ==
  \E i, j \in Invocations :
    /\ inv[i].calls.docPost = 1 /\ Done(i)
    /\ inv[j].calls.textPost = 1 /\ Done(j)

\* C3: once an invocation has responded, the local file downloadFile wrote
\* for it is absent from storage.
C3_LocalFileAbsentAfterCompletion ==
  \A i \in Invocations :
    (Done(i) /\ inv[i].fileName # "") =>
      ~(fs[inv[i].fileName].exists /\ fs[inv[i].fileName].by = i)

DigitsOf(s) == SelectSeq(s, LAMBDA c : c \in Digit)

\* The directory holds a row for these digits, and the row has an
\* enrollment identifier.
Registered(digits) ==
  \E k \in 1..Len(Sheet) :
    /\ Sheet[k].PhoneNumber.def
    /\ DigitsOf(Sheet[k].PhoneNumber.s) = digits
    /\ Sheet[k].enrollmentNumber.def /\ Sheet[k].enrollmentNumber.s # <<>>

\* The bodies C4 is about: a name, and a registered phone of 10 to 15 digits
\* that carries a formatting character other than whitespace.
FormattedPhoneBody(body) ==
  /\ body.name.def /\ body.name.s # <<>>
  /\ GivenPhone(body).def
  /\ \E k \in 1..Len(GivenPhone(body).s) :
       GivenPhone(body).s[k] \notin Digit \cup {"+", " ", "\t"}
  /\ Len(DigitsOf(GivenPhone(body).s)) \in 10..15
  /\ Registered(DigitsOf(GivenPhone(body).s))

\* C4: a request whose phone is formatted with characters other than
\* whitespace, is registered and meets no failing or not-found collaborator
\* ends with status 200, success=true and the gateway's response as data.
C4_FormattedPhoneIsDelivered ==
  \A i \in Invocations :
    (Done(i) /\ FormattedPhoneBody(inv[i].body)
       /\ inv[i].failedAt = "" /\ inv[i].notFound = "") =>
      /\ Status(i) = 200
      /\ inv[i].res.success = TRUE
      /\ inv[i].res.data = inv[i].reply.body

\* success === true or result === true, of an object body
ExplicitSuccess(body) ==
  body.kind = "object" /\ (body.success = "true" \/ body.result = "true")

GatewayAsserted(i) ==
  inv[i].reply.kind = "body" /\ ExplicitSuccess(inv[i].reply.body)

InPhoneNotFound(i) == inv[i].notFound = "Phone number not found in the database"

InDocumentNotFound(i) == inv[i].notFound = "PDF not found for the enrollment number"

\* C5: in each not-found branch sendText is attempted exactly once, to the
\* requester's phone and with the branch's message; no later stage (locate,
\* fetch, sendDocument) is invoked; and when the gateway asserts success the
\* invocation ends with status 404 and the gateway's response as data.
C5_NotFoundSendsOneTextThen404 ==
  \A i \in Invocations :
    (InPhoneNotFound(i) \/ InDocumentNotFound(i)) =>
      /\ inv[i].calls.sendText = 1
      /\ inv[i].calls.textPost = (IF env.wati THEN 1 ELSE 0)
      /\ inv[i].calls.textPost = 1 =>
           /\ inv[i].textTo = NoWhitespace(GivenPhone(inv[i].body).s)
           /\ InPhoneNotFound(i) => inv[i].errorMessage = PhoneNotFoundText
           /\ InDocumentNotFound(i) => inv[i].errorMessage = DocumentNotFoundText
      /\ InPhoneNotFound(i) => inv[i].calls.list = 0 /\ inv[i].calls.get = 0
      /\ inv[i].calls.sendPdf = 0
      /\ inv[i].calls.http = 0
      /\ inv[i].calls.docPost = 0
      /\ (Done(i) /\ GatewayAsserted(i)) =>
           /\ Status(i) = 404
           /\ inv[i].res.message = inv[i].notFound
           /\ inv[i].res.data = inv[i].reply.body

\* Both branches have ended in 404 with the gateway's response embedded.
C5_Witness ==
  \E i, j \in Invocations :
    /\ Done(i) /\ InPhoneNotFound(i) /\ Status(i) = 404
    /\ inv[i].res.data = inv[i].reply.body /\ GatewayAsserted(i)
    /\ Done(j) /\ InDocumentNotFound(j) /\ Status(j) = 404
    /\ inv[j].res.data = inv[j].reply.body /\ GatewayAsserted(j)

\* C6: a not-found branch whose sendText fails (transport failure, timeout,
\* a response that does not assert success) ends with status 500, never
\* 404; every 404 that carries data follows a sendText whose gateway
\* response asserted success.
C6_FailedTextEscalatesTo500 ==
  \A i \in Invocations :
    /\ (Done(i) /\ (InPhoneNotFound(i) \/ InDocumentNotFound(i))
          /\ ~GatewayAsserted(i)) => Status(i) = 500
    /\ (Status(i) = 404 /\ inv[i].res.data # NoData) =>
         /\ inv[i].calls.textPost = 1
         /\ GatewayAsserted(i)
         /\ inv[i].res.data = inv[i].reply.body

\* One compensating text was refused by the gateway and one timed out.
C6_Witness ==
  \E i, j \in Invocations :
    /\ Done(i) /\ InPhoneNotFound(i) /\ Status(i) = 500
    /\ inv[i].reply.kind = "body" /\ inv[i].reply.body.success = "false"
    /\ Done(j) /\ InDocumentNotFound(j) /\ Status(j) = 500
    /\ inv[j].reply.kind = "error"

\* The request's phone matches a directory row without an enrollment
\* identifier (and no earlier row).
MatchesRowWithoutEnrollment(i) ==
  /\ inv[i].sanitizedPhone # <<>>
  /\ \E k \in 1..Len(Sheet) :
       /\ Sheet[k].PhoneNumber.def
       /\ DigitsOf(Sheet[k].PhoneNumber.s) = DigitsOf(inv[i].sanitizedPhone)
       /\ ~(Sheet[k].enrollmentNumber.def /\ Sheet[k].enrollmentNumber.s # <<>>)
       /\ \A m \in 1..(k - 1) :
            ~(Sheet[m].PhoneNumber.def
                /\ DigitsOf(Sheet[m].PhoneNumber.s) = DigitsOf(inv[i].sanitizedPhone))

\* C7: when the matched directory row has no enrollment identifier the
\* invocation makes no gateway call, file-store query or download, and once
\* the lookup has returned it ends with status 404 and the message
\* "Enrollment number not found for the matched phone number".
C7_MissingEnrollmentIs404WithoutCalls ==
  \A i \in Invocations :
    MatchesRowWithoutEnrollment(i) =>
      /\ inv[i].calls.sendText = 0 /\ inv[i].calls.textPost = 0
      /\ inv[i].calls.sendPdf = 0 /\ inv[i].calls.docPost = 0
      /\ inv[i].calls.list = 0 /\ inv[i].calls.get = 0 /\ inv[i].calls.http = 0
      /\ inv[i].pc \in {"lookup", "done"}
      /\ (Done(i) /\ inv[i].failedAt = "") =>
           /\ Status(i) = 404
           /\ inv[i].res.success = FALSE
           /\ inv[i].res.message =
                "Enrollment number not found for the matched phone number"
           /\ inv[i].res.data = NoData

\* A row with an empty and a row with an absent enrollment column have
\* both been answered.
C7_Witness ==
  \E i, j \in Invocations :
    /\ MatchesRowWithoutEnrollment(i) /\ Done(i) /\ Status(i) = 404
    /\ inv[i].calls.directory = 1 /\ inv[i].sanitizedPhone = PhoneBob
    /\ MatchesRowWithoutEnrollment(j) /\ Done(j) /\ Status(j) = 404
    /\ inv[j].calls.directory = 1 /\ inv[j].sanitizedPhone = PhoneDan

\* C8: two invocations that end in the Fatal state at the same stage
\* receive identical 500 response bodies, whatever the underlying errors.
C8_FatalBodyIsGeneric ==
  \A i, j \in Invocations :
    (Done(i) /\ Done(j) /\ Status(i) = 500 /\ Status(j) = 500
       /\ inv[i].failedAt = inv[j].failedAt) =>
      inv[i].res = inv[j].res

InfrastructureFailed(i) ==
  inv[i].failedAt \in {"directory", "locate", "fetch", "dispatch"}

\* C9: an invocation that met an infrastructure failure (directory, file
\* store, download, document dispatch) has ended with status 500, has sent
\* no text to the requester, and has issued the directory lookup, each
\* file-store query and each gateway post at most once.
C9_InfrastructureFailureIs500 ==
  \A i \in Invocations :
    InfrastructureFailed(i) =>
      /\ Done(i) /\ Status(i) = 500
      /\ inv[i].calls.sendText = 0 /\ inv[i].calls.textPost = 0
      /\ inv[i].calls.directory <= 1
      /\ inv[i].calls.list <= 1 /\ inv[i].calls.get <= 1
      /\ inv[i].calls.docPost <= 1

\* C10: a gateway response that does not assert success explicitly fails
\* the send (status 500); a 200 follows only a document post, and a 404 with
\* a text post only a text post, whose gateway response asserted success.
C10_OnlyExplicitSuccessCounts ==
  \A i \in Invocations :
    /\ Status(i) = 200 =>
         inv[i].calls.docPost = 1 /\ GatewayAsserted(i)
           /\ inv[i].res.data = inv[i].reply.body
    /\ (Status(i) = 404 /\ inv[i].calls.textPost = 1) => GatewayAsserted(i)
    /\ (Done(i) /\ inv[i].reply.kind = "body" /\ ~ExplicitSuccess(inv[i].reply.body)) =>
         Status(i) = 500 /\ inv[i].thrown # ""

\* A document send was answered {success:'true'} (a string) and failed,
\* another was answered {result:true} and gave 200.
C10_Witness ==
  \E i, j \in Invocations :
    /\ Done(i) /\ inv[i].calls.docPost = 1 /\ Status(i) = 500
    /\ inv[i].reply.kind = "body" /\ inv[i].reply.body.success = "'true'"
    /\ Status(j) = 200 /\ inv[j].reply.body.result = "true"

\* The first response was a confirmation page: content-type text/html.
FirstWasHtml(i) == inv[i].first.kind = "ok" /\ inv[i].first.html

\* C11: a fetch issues at most two GETs; the second one is issued exactly
\* when the first response was HTML holding confirm=<token>, and it targets
\* the original link with &confirm=<token> appended as its last parameter.
C11_AtMostOneConfirmationRetry ==
  \A i \in Invocations :
    /\ inv[i].calls.http <= 2
    /\ inv[i].calls.http = 2 <=> (FirstWasHtml(i) /\ inv[i].first.token # "")
    /\ inv[i].calls.http = 2 =>
         /\ inv[i].confirmedUrl.base = inv[i].pdfUrl.base
         /\ inv[i].confirmedUrl.params =
              inv[i].pdfUrl.params \o <<<<"confirm", inv[i].first.token>>>>
    /\ inv[i].calls.http < 2 => inv[i].confirmedUrl = NoUrl
    /\ inv[i].pc = "get2" => inv[i].calls.http = 2

\* A confirmation page with confirm=XYZ123 was answered by one retry, whose
\* response, again a confirmation page with a token, was not retried.
C11_Witness ==
  \E i \in Invocations :
    /\ inv[i].calls.http = 2 /\ inv[i].pc = "dl_open" /\ inv[i].html
    /\ inv[i].first.token = "XYZ123"
    /\ inv[i].confirmedUrl =
         Url(DriveUc, <<<<"export", "download">>, <<"id", "F1">>,
                        <<"confirm", "XYZ123">>>>)

\* C12: when the first response is HTML without an extractable token the
\* invocation has ended in the Fatal state (500) with the download error,
\* has issued one GET only and has created no file on local storage.
C12_MissingTokenFailsWithoutRetryOrFile ==
  \A i \in Invocations :
    (FirstWasHtml(i) /\ inv[i].first.token = "") =>
      /\ Done(i) /\ Status(i) = 500 /\ inv[i].res.success = FALSE
      /\ inv[i].failedAt = "fetch"
      /\ inv[i].thrown = "Failed to extract confirmation token from HTML response."
      /\ inv[i].calls.http = 1
      /\ inv[i].calls.docPost = 0
      /\ inv[i].fileName = "" /\ inv[i].downloadedFilePath = ""
      /\ \A f \in Files : ~(fs[f].exists /\ fs[f].by = i)

\* A confirmation page without a token has been answered with 500.
C12_Witness ==
  \E i \in Invocations :
    /\ FirstWasHtml(i) /\ inv[i].first.token = ""
    /\ Done(i) /\ Status(i) = 500 /\ inv[i].calls.http = 1
    /\ inv[i].stages = <<"lookup", "extract", "locate">>

\* The invocation is in flight between resolving its local path and the end
\* of its dispatch: the path is the one it writes to or reads from.
HoldsLocalPath(i) ==
  /\ inv[i].pc \in {"dl_open", "dl_stream", "read_open", "post_doc"}
  /\ inv[i].fileName # ""

\* C13: at no time do two in-flight invocations hold the same local storage
\* path for their fetched document.
C13_LocalPathsAreUnique ==
  \A i, j \in Invocations :
    (i # j /\ HoldsLocalPath(i) /\ HoldsLocalPath(j)) =>
      inv[i].fileName # inv[j].fileName

\* The invocation is writing its download or reading it for the dispatch.
WritingOrReading(i) == inv[i].pc \in {"dl_stream", "read_open", "post_doc"}

\* C14: an invocation is independent of the others: the file it is writing
\* or reading is present and holds what this invocation wrote (no other
\* invocation has removed or overwritten it), and no invocation fails because
\* the file its own download completed is gone.
C14_InvocationsAreIndependent ==
  \A i \in Invocations :
    /\ WritingOrReading(i) =>
         fs[inv[i].fileName].exists /\ fs[inv[i].fileName].by = i
    /\ Done(i) => inv[i].thrown # "ENOENT: no such file or directory, open"

\* The invocation waits for an external call or a local stream event that
\* will return or fail.
Awaiting(i) ==
  inv[i].pc \in {"lookup", "post_text", "list", "get", "get1", "get2",
                 "dl_open", "dl_stream", "read_open", "post_doc"}

\* C15: an invocation that has begun and waits for nothing any more has
\* produced its response, with a status of {200, 400, 404, 500}; the
\* stream-to-disk step in particular ends in completion or in an I/O error.
C15_EveryInvocationAnswers ==
  \A i \in Invocations :
    \/ inv[i].pc = "idle"
    \/ Awaiting(i)
    \/ Done(i) /\ Status(i) \in {200, 400, 404, 500}

\* The phones this invocation has handed to its collaborators so far: to the
\* directory lookup, to the gateway's text post and to its document post.
PhonesPassed(i) ==
  (IF inv[i].calls.directory > 0 THEN {inv[i].lookupPhone} ELSE {})
    \cup (IF inv[i].calls.textPost > 0 THEN {inv[i].textTo} ELSE {})
    \cup (IF inv[i].calls.docPost > 0 THEN {inv[i].docTo} ELSE {})

\* C16: the phone passed to every external call of an invocation (directory
\* lookup, sendText, sendDocument) matches ^\+?[0-9]{10,15}$ and is one value
\* throughout: the request's phone without its whitespace.
C16_OnePhoneMatchingThePattern ==
  \A i \in Invocations :
    \A p \in PhonesPassed(i) :
      /\ MatchesPhonePattern(p)
      /\ p = NoWhitespace(GivenPhone(inv[i].body).s)
      /\ PhonesPassed(i) = {p}

\* "+1 202 555 0178" went to the lookup and the document post as
\* "+12025550178"; an unregistered phone went to the lookup and the text post.
C16_Witness ==
  \E i, j \in Invocations :
    /\ inv[i].calls.directory = 1 /\ inv[i].calls.docPost = 1
    /\ inv[i].lookupPhone = StripWhitespace(PhoneJaneSpaced)
    /\ inv[i].docTo = inv[i].lookupPhone /\ Head(inv[i].docTo) = "+"
    /\ inv[j].calls.directory = 1 /\ inv[j].calls.textPost = 1
    /\ inv[j].lookupPhone = PhoneEve /\ inv[j].textTo = PhoneEve

StageOrder == <<"lookup", "extract", "locate", "fetch", "dispatch">>

\* The stages this invocation has completed are the first n of the order.
CompletedFirst(i, n) ==
  Len(inv[i].stages) >= n /\ SubSeq(inv[i].stages, 1, n) = SubSeq(StageOrder, 1, n)

LocateInvoked(i) ==
  inv[i].calls.list > 0 \/ inv[i].calls.get > 0 \/ inv[i].failedAt = "locate"

FetchInvoked(i) ==
  inv[i].calls.sendPdf > 0 \/ inv[i].calls.http > 0 \/ inv[i].failedAt = "fetch"

DispatchInvoked(i) ==
  inv[i].calls.docPost > 0 \/ inv[i].pc = "read_open" \/ inv[i].downloadedFilePath # ""

\* C20: the stages complete in the order lookup, secondary-key extraction,
\* locate, fetch, dispatch; locate is invoked only after lookup and extraction
\* succeeded, fetch only after locate too, dispatch only after fetch too, and
\* a 200 is answered only after all five succeeded.
C20_StagesRunInOrder ==
  \A i \in Invocations :
    /\ CompletedFirst(i, Len(inv[i].stages))
    /\ Len(inv[i].stages) > 0 => inv[i].calls.directory = 1
    /\ LocateInvoked(i) => CompletedFirst(i, 2)
    /\ FetchInvoked(i) =>
         CompletedFirst(i, 3) /\ inv[i].calls.list = 1 /\ inv[i].calls.get = 1
    /\ DispatchInvoked(i) => CompletedFirst(i, 4) /\ inv[i].calls.http \in {1, 2}
    /\ Status(i) = 200 => inv[i].stages = StageOrder /\ inv[i].calls.docPost = 1

\* One invocation completed all five stages and answered 200; another
\* stopped in the fetch with the first three complete.
C20_Witness ==
  \E i, j \in Invocations :
    /\ Status(i) = 200 /\ inv[i].stages = StageOrder
    /\ Done(j) /\ inv[j].failedAt = "fetch"
    /\ inv[j].stages = <<"lookup", "extract", "locate">>

Applied(fn) == probe.fn = fn /\ probe.applied

\* The positions of the URL's id parameters that have a value.
IdParams(u) ==
  {k \in 1..Len(u.params) : u.params[k][1] = "id" /\ u.params[k][2] # ""}

\* C17: the file name is the one in the content-disposition header when the
\* header holds one; otherwise the id parameter of the request URL followed
\* by .pdf when the URL has one; otherwise downloaded.pdf.
C17_FileNamePrecedence ==
  Applied("name") =>
    LET named == probe.header.present /\ probe.header.filename # ""
        ids == IdParams(probe.url)
    IN  /\ named => probe.fileName = probe.header.filename
        /\ (~named /\ ids # {}) =>
             \E k \in ids :
               /\ \A m \in ids : k <= m
               /\ probe.fileName = probe.url.params[k][2] \o ".pdf"
        /\ (~named /\ ids = {}) => probe.fileName = "downloaded.pdf"

\* A header without a file name and a URL without an id gave downloaded.pdf.
C17_Witness ==
  /\ Applied("name")
  /\ probe.header = Disposition("")
  /\ probe.url = Url(DriveUc, <<<<"id", "">>, <<"export", "download">>>>)
  /\ probe.fileName = "downloaded.pdf"

\* The digits of a row's PhoneNumber cell; none when the cell is absent.
CellDigits(row) ==
  IF row.PhoneNumber.def THEN DigitsOf(row.PhoneNumber.s) ELSE <<>>

C19_NormalizationIsIdempotent ==
  Applied("normalize") =>
    /\ StripNonDigits(probe.normalized) = probe.normalized
    /\ \A k \in 1..Len(probe.normalized) : probe.normalized[k] \in Digit

\* "-1-" was normalized to "1".
C19_Witness ==
  /\ Applied("normalize")
  /\ probe.phone = <<"-", "1", "-">>
  /\ probe.normalized = <<"1">>

\* findPdfByEnrollmentNumber returned null: the handler took the branch of a
\* null pdfUrl.
LocatorReturnedNull(i) == InDocumentNotFound(i)

\* findPdfByEnrollmentNumber threw: the handler's catch answered.
LocatorThrew(i) ==
  /\ Done(i) /\ Status(i) = 500 /\ inv[i].failedAt = "locate"
  /\ inv[i].notFound = "" /\ inv[i].calls.sendText = 0

\* The query's result has a first file, and the file has an id.
FirstFileHasId(reply) ==
  reply.kind = "files" /\ Len(reply.files) > 0 /\ reply.files[1].id # ""

\* C21: findPdfByEnrollmentNumber returns null when the query yields no file,
\* when the first file has no id or when the file has no download link;
\* otherwise it returns the link of the first file of the result, never of a
\* later one; a failed query or a failed files.get is thrown, not null.
C21_LocatorReturnsFirstFileOrNull ==
  \A i \in Invocations :
    /\ inv[i].listed.kind = "error" => LocatorThrew(i) /\ inv[i].calls.get = 0
    /\ (inv[i].listed.kind = "files" /\ ~FirstFileHasId(inv[i].listed)) =>
         /\ LocatorReturnedNull(i)
         /\ inv[i].calls.get = 0 /\ inv[i].directDownloadLink = NoUrl
    /\ FirstFileHasId(inv[i].listed) =>
         /\ inv[i].calls.get = 1
         /\ inv[i].fileId = inv[i].listed.files[1].id
    /\ inv[i].got.kind = "error" => LocatorThrew(i)
    /\ (inv[i].got.kind = "file" /\ ~inv[i].got.hasLink) =>
         LocatorReturnedNull(i) /\ inv[i].directDownloadLink = NoUrl
    /\ (inv[i].got.kind = "file" /\ inv[i].got.hasLink) =>
         /\ ~LocatorReturnedNull(i)
         /\ inv[i].directDownloadLink =
              Url(DriveUc, <<<<"id", inv[i].listed.files[1].id>>>>)
    /\ inv[i].directDownloadLink # NoUrl =>
         inv[i].got.kind = "file" /\ inv[i].got.hasLink
    /\ LocatorReturnedNull(i) =>
         \/ inv[i].listed.kind = "files" /\ ~FirstFileHasId(inv[i].listed)
         \/ inv[i].got.kind = "file" /\ ~inv[i].got.hasLink

\* A result whose first file has no id gave null although its second file
\* has one; a result F2, F1 gave the link of F2.
C21_Witness ==
  \E i, j \in Invocations :
    /\ inv[i].listed.kind = "files" /\ Len(inv[i].listed.files) = 2
    /\ inv[i].listed.files[1].id = "" /\ inv[i].listed.files[2].id = "F2"
    /\ LocatorReturnedNull(i) /\ Done(i) /\ Status(i) = 404
    /\ inv[j].listed.files = <<[id |-> "F2"], [id |-> "F1"]>>
    /\ inv[j].directDownloadLink = Url(DriveUc, <<<<"id", "F2">>>>)

\* C22: whenever an invocation has posted its document to the gateway, the
\* response it streamed to disk for it was not an HTML page.
C22_NeverDispatchesHtml ==
  \A i \in Invocations :
    inv[i].calls.docPost > 0 => ~inv[i].html

\* The first row of the directory, in sheet order, whose PhoneNumber cell
\* shows the digits of the phone; 0 when there is none.
FirstRowFor(phone) ==
  LET hits == {k \in 1..Len(Sheet) : CellDigits(Sheet[k]) = DigitsOf(phone)}
  IN  IF hits = {} THEN 0 ELSE CHOOSE k \in hits : \A m \in hits : k <= m

\* C23: whenever a document is posted to the gateway it is addressed to the
\* phone of the request, the file-store query was made with the enrollment
\* identifier of the directory row matched for that phone, and the link
\* fetched is the one that query's result gave; no document is posted when
\* the lookup found no row or the row has no enrollment identifier.
C23_DocumentGoesToRequester ==
  \A i \in Invocations :
    inv[i].calls.docPost > 0 =>
      LET phone == NoWhitespace(GivenPhone(inv[i].body).s)
          k == FirstRowFor(phone)
      IN  /\ inv[i].docTo = phone
          /\ k # 0
          /\ Sheet[k].enrollmentNumber.def /\ Sheet[k].enrollmentNumber.s # <<>>
          /\ inv[i].calls.list = 1
          /\ inv[i].enrollmentNumber = Sheet[k].enrollmentNumber.s
          /\ FirstFileHasId(inv[i].listed)
          /\ inv[i].got.kind = "file" /\ inv[i].got.hasLink
          /\ inv[i].pdfUrl = UcDownloadUrl(inv[i].listed.files[1].id)
          /\ inv[i].notFound = ""
          /\ inv[i].calls.textPost = 0

\* A document was posted to "+12025550178" for enrollment EN1, the first of
\* the two rows with these digits.
C23_Witness ==
  \E i \in Invocations :
    /\ inv[i].calls.docPost = 1 /\ Status(i) = 200
    /\ inv[i].docTo = StripWhitespace(PhoneJaneSpaced)
    /\ inv[i].enrollmentNumber = <<"E", "N", "1">>
    /\ inv[i].pdfUrl = UcDownloadUrl("F2")

\* C24: a phone that passed validation goes to the directory with 10 to 15
\* digits, and the row returned for it is never one whose PhoneNumber cell
\* is absent, empty or without digits: the row's digits are the phone's.
C24_DigitlessRowNeverMatches ==
  \A i \in Invocations :
    /\ inv[i].calls.directory > 0 =>
         Len(DigitsOf(inv[i].lookupPhone)) \in MinPhoneDigits..MaxPhoneDigits
    /\ inv[i].matchedRow \in 0..Len(Sheet)
    /\ inv[i].matchedRow # 0 =>
         /\ Sheet[inv[i].matchedRow].PhoneNumber.def
         /\ CellDigits(Sheet[inv[i].matchedRow]) # <<>>
         /\ CellDigits(Sheet[inv[i].matchedRow]) = DigitsOf(inv[i].lookupPhone)

\* Behind three rows without digits (absent, empty, "n/a") the fourth row
\* was matched for one phone, and no row for an unregistered phone.
C24_Witness ==
  \E i, j \in Invocations :
    /\ ~Sheet[1].PhoneNumber.def /\ Sheet[2].PhoneNumber = Str(<<>>)
    /\ CellDigits(Sheet[3]) = <<>> /\ Sheet[3].PhoneNumber.s # <<>>
    /\ inv[i].matchedRow = 4 /\ inv[i].stages # <<>>
    /\ inv[j].lookupPhone = PhoneEve /\ InPhoneNotFound(j) /\ inv[j].matchedRow = 0

====
